---- MODULE Spec2Model ----
(***************************************************************************)
(* egui_logger: the process-wide log store, the sink that appends to it    *)
(* (src/src/lib.rs) and the per-frame viewer with its search cache and     *)
(* layout cache (src/src/ui.rs).                                           *)
(*                                                                         *)
(* Text is a sequence of one-character strings, so that formatting,        *)
(* padding, case folding and substring search are computed, not assumed.   *)
(* Times are milliseconds since the logger's start_time.                   *)
(*                                                                         *)
(* A frame runs in two steps with the store lock held from the first to    *)
(* the second: FrameBegin (both locks, the trim, the caches' drain) and    *)
(* FrameBody (the widgets, the layout cache, the search cache, the         *)
(* filtered list, the rows, the unlock).  Statements inside one step are   *)
(* not interleaved with anything: the caches belong to the UI thread and   *)
(* the store is behind the lock the frame holds.                           *)
(***************************************************************************)
EXTENDS Integers, Sequences, FiniteSets, TLC

\* ---------------------------------------------------------------- bounds
\* Sink calls accepted over a run.
MaxEmits == 2
\* Widget interactions over a run (frames without input are not counted).
MaxInputs == 3
\* Widget interactions a run over a fixed data set goes through at most.
MaxScenarioInputs == 4
\* Milliseconds between two successive appended records.
EmitGapMs == 30250
\* Time of the first appended record.
FirstEmitMs == 5000
\* Records at each of the five levels in the level scenario.
PerLevel == 2

\* ------------------------------------------------------------- constants
\* log::STATIC_MAX_LEVEL without a max_level_* feature: Trace.
STATIC_MAX_LEVEL == 5
\* LoggerUi::default().max_log_length
DefaultMaxLogLength == 1000
\* init(): log::set_max_level(log::LevelFilter::Info)
ConfiguredMaxLevel == 3

NoOwner == "none"

\* ------------------------------------------------------------------ text
Min(a, b) == IF a < b THEN a ELSE b
Max(a, b) == IF a > b THEN a ELSE b

Spaces(n) == [i \in 1..n |-> " "]

UpperToLower ==
    [A |-> "a", B |-> "b", C |-> "c", D |-> "d", E |-> "e", F |-> "f",
     G |-> "g", H |-> "h", I |-> "i", J |-> "j", K |-> "k", L |-> "l",
     M |-> "m", N |-> "n", O |-> "o", P |-> "p", Q |-> "q", R |-> "r",
     S |-> "s", T |-> "t", U |-> "u", V |-> "v", W |-> "w", X |-> "x",
     Y |-> "y", Z |-> "z"]

\* A case folding that folds nothing.
ToLowercase_Identity(s) == s

\* str::to_lowercase on the ASCII texts of the model.
ToLowercase(s) ==
    [i \in 1..Len(s) |->
        IF s[i] \in DOMAIN UpperToLower THEN UpperToLower[s[i]] ELSE s[i]]

\* str::contains(&pattern): the pattern occurs at some offset.
Contains(s, t) ==
    \E i \in 0..(Len(s) - Len(t)) : SubSeq(s, i + 1, i + Len(t)) = t

\* str::starts_with
StartsWith(s, t) == Len(t) <= Len(s) /\ SubSeq(s, 1, Len(t)) = t

DigitChar == <<"0", "1", "2", "3", "4", "5", "6", "7", "8", "9">>

RECURSIVE Decimal(_)
\* Display of a non-negative integer.
Decimal(n) ==
    IF n < 10 THEN <<DigitChar[n + 1]>>
    ELSE Decimal(n \div 10) \o <<DigitChar[(n % 10) + 1]>>

\* A number zero-padded to w digits (chrono's %H, %M, %S, %.3f fields).
ZeroPad(n, w) ==
    LET d == Decimal(n)
    IN  IF Len(d) >= w THEN d ELSE [i \in 1..(w - Len(d)) |-> "0"] \o d

\* format!("{: <width$}", s): left-aligned, padded with spaces to width.
PadRight(s, w) == IF Len(s) >= w THEN s ELSE s \o Spaces(w - Len(s))

\* format!("{: >width$}", s): right-aligned, padded with spaces to width.
PadLeft(s, w) == IF Len(s) >= w THEN s ELSE Spaces(w - Len(s)) \o s

\* ------------------------------------------------------------ formatting
\* The radio buttons of the "Time" menu the user picks.
TimeFormatChoices == {"Utc", "SinceStart", "Hide"}
TimeFormats == {"Utc", "LocalTime", "SinceStart", "Hide"}
TimePrecisions == {"Seconds", "Milliseconds"}

\* LoggerStyle::default(): the builder switches the model keeps at their defaults.
include_level == TRUE
include_target == TRUE
enable_regex == TRUE
enable_search == TRUE

\* The logger's start_time: local midnight of this date, in a zone at UTC+0.
StartDate == <<"2", "0", "2", "6", "-", "0", "1", "-", "0", "1">>

\* chrono's "%T" of start_time + ms.
ClockText(ms) ==
    ZeroPad((ms \div 3600000) % 24, 2) \o <<":">> \o
    ZeroPad((ms \div 60000) % 60, 2) \o <<":">> \o
    ZeroPad((ms \div 1000) % 60, 2)

\* chrono's "%.3f"
MillisText(ms) == <<".">> \o ZeroPad(ms % 1000, 3)

SinceStartSeconds(ms) ==
    LET h == (ms \div 3600000) % 24
        m == (ms \div 60000) % 60
        s == (ms \div 1000) % 60
    IN  IF h = 0 /\ m = 0 THEN Decimal(s) \o <<"s">>
        ELSE IF h = 0 THEN Decimal(m) \o <<"m", " ">> \o Decimal(s) \o <<"s">>
        ELSE Decimal(h) \o <<"h", " ">> \o Decimal(m) \o <<"m", " ">>
                 \o Decimal(s) \o <<"s">>

SinceStartMillis(ms) ==
    LET h == (ms \div 3600000) % 24
        m == (ms \div 60000) % 60
        s == (ms \div 1000) % 60
        r == ms % 1000
        tail == Decimal(r) \o <<"m", "s">>
    IN  IF h = 0 /\ m = 0 /\ s = 0 THEN tail
        ELSE IF h = 0 /\ m = 0 THEN Decimal(s) \o <<"s", " ">> \o tail
        ELSE IF h = 0 THEN Decimal(m) \o <<"m", " ">> \o Decimal(s)
                               \o <<"s", " ">> \o tail
        ELSE Decimal(h) \o <<"h", " ">> \o Decimal(m) \o <<"m", " ">>
                 \o Decimal(s) \o <<"s", " ">> \o tail

\* format_time(time, style, start_time)
format_time(ms, fmt, prec) ==
    LET t == CASE fmt = "Utc" /\ prec = "Seconds" ->
                     StartDate \o <<"T">> \o ClockText(ms) \o <<"Z">>
              [] fmt = "Utc" /\ prec = "Milliseconds" ->
                     StartDate \o <<"T">> \o ClockText(ms) \o MillisText(ms)
                         \o <<"Z">>
              [] fmt = "LocalTime" /\ prec = "Seconds" -> ClockText(ms)
              [] fmt = "LocalTime" /\ prec = "Milliseconds" ->
                     ClockText(ms) \o MillisText(ms)
              [] fmt = "SinceStart" /\ prec = "Seconds" -> SinceStartSeconds(ms)
              [] fmt = "SinceStart" /\ prec = "Milliseconds" ->
                     SinceStartMillis(ms)
              [] OTHER -> <<>>
    IN  IF fmt = "Hide" THEN t ELSE t \o <<" ">>

\* log::Level's Display, in the order of LEVELS: Error = 1 .. Trace = 5.
LevelName ==
    << <<"E", "R", "R", "O", "R">>, <<"W", "A", "R", "N">>,
       <<"I", "N", "F", "O">>, <<"D", "E", "B", "U", "G">>,
       <<"T", "R", "A", "C", "E">> >>

\* format_record(logger, style, record, time_padding).text: the time, the
\* level, the target padded to max_category_length, the message.
format_record(rec, fmt, prec, mcl, time_padding) ==
    LET level_str == IF include_level
                     THEN <<"[">> \o PadRight(LevelName[rec.level], 5)
                              \o <<"]", " ">>
                     ELSE <<>>
        target_str == IF include_target
                      THEN PadRight(rec.target, mcl) \o <<":", " ">>
                      ELSE <<>>
        date_str == PadLeft(format_time(rec.time, fmt, prec), time_padding)
    IN  date_str \o level_str \o target_str \o rec.message

\* ----------------------------------------------------------------- regex
None == [some |-> FALSE]
Some(v) == [some |-> TRUE, value |-> v]

\* RegexBuilder::new(term).case_insensitive(ci).build().ok(), for the
\* patterns of the model: literals, a leading "^", and "(" which opens a
\* group that is never closed and so fails to compile.
RegexBuild(term, ci) ==
    IF \E i \in 1..Len(term) : term[i] = "("
    THEN None
    ELSE Some([pattern |-> term, case_insensitive |-> ci])

\* Regex::is_match(text)
IsMatch(re, text) ==
    LET anchored == Len(re.pattern) > 0 /\ re.pattern[1] = "^"
        lit == IF anchored THEN Tail(re.pattern) ELSE re.pattern
        t == IF re.case_insensitive THEN ToLowercase(text) ELSE text
        l == IF re.case_insensitive THEN ToLowercase(lit) ELSE lit
    IN  IF anchored THEN StartsWith(t, l) ELSE Contains(t, l)

\* ---------------------------------------------------------------- inputs
Threads == {"t1"}

\* What the application logs: level, target, message.
Events ==
    { [level |-> 1, target |-> <<"a">>, message |-> <<"a">>],
      [level |-> 4, target |-> <<"b", "b">>, message |-> <<"B">>] }

\* What the user types into the search box.
SearchTerms == { <<>>, <<"a">>, <<"b">>, <<"s">> }

\* What the user drags "Max Log output" to.
MaxLenChoices == {1, 2}

\* The levels of the "Log Levels" menu the user clicks.
ClickLevels == {1, 4}

\* The time of the k-th appended record.
TimeOf(k) == FirstEmitMs + (k - 1) * EmitGapMs

NoEvent == [level |-> 0]

\* ----------------------------------------------------------------- state
VARIABLES
    \* Logger (the store, behind the LOGGER mutex)
    logs,                 \* Vec<Record>: level, target, message, time
    categories,           \* HashMap<String, bool>
    max_category_length,  \* running maximum of the targets' lengths
    show_all_categories,  \* the builder's default for a newly seen category
    lock_owner,           \* who holds the store mutex: NoOwner, "ui"
    log_poisoned,         \* the store mutex is poisoned
    \* the sink's threads
    sink_pc,              \* per thread: "idle", or "blocked" inside lock()
    pending,              \* per thread: the event its blocked log() call carries
    \* LoggerUi (behind the LOGGER_UI mutex)
    loglevels, search_term, regex, search_case_sensitive, search_use_regex,
    max_log_length, time_format, time_precision,
    search_cache, layout_cache, cache_layouts,
    ui_poisoned,          \* the LOGGER_UI mutex is poisoned
    \* LoggerUi::ui's position and locals
    pc,                   \* "idle", or "frame" with the guards held
    input,                \* the widget interaction of the frame
    dropped_entries, search_changed, filtered_logs,
    rendered,             \* what the last show() drew
    fault,                \* an arithmetic underflow or an index out of bounds
    \* history, read by the properties only
    emits, inputs_used,   \* the run's counters, for the bounds
    appended_total,       \* records appended since the start
    appended_count,       \* records appended since the start or the last clear
    cap_used,             \* max_log_length as the last trim applied it
    evicted,              \* a trim has dropped records since the last clear
    raised_after_evict,   \* a trim applied a larger cap than an evicting one
    search_src, layout_src, \* the time of the record each cache entry was made from
    format_calls, match_calls, \* format_record / match_string calls of the frame's last step
    fresh,                \* the last step completed a refresh
    stable,               \* since the last refresh began: no append, no filter change
    aba,                  \* search "a", then "b", then "a" over fixed records and filters
    \* the viewer of lib.rs: what its frame reports, and what it went over
    log_size,             \* the number of the "Log size" label
    trim_left,            \* the times of the records the frame's trim left
    iterated,             \* the times of the records the frame's list went over
    uncached_search       \* the search cache the same frames leave with enable_cache_layouts(false)

store_vars == <<logs, categories, max_category_length, show_all_categories,
                lock_owner, log_poisoned>>
sink_vars == <<sink_pc, pending>>
filter_vars == <<loglevels, search_term, regex, search_case_sensitive,
                 search_use_regex, max_log_length, time_format, time_precision>>
cache_vars == <<search_cache, layout_cache, cache_layouts>>
frame_vars == <<pc, input, dropped_entries, search_changed, filtered_logs,
                rendered, fault, ui_poisoned>>
ghost_vars == <<emits, inputs_used, appended_total, appended_count, cap_used,
                evicted, raised_after_evict, search_src, layout_src,
                format_calls, match_calls, fresh, stable, aba>>
lib_vars == <<log_size, trim_left, iterated>>
twin_vars == <<uncached_search>>
vars == <<store_vars, sink_vars, filter_vars, cache_vars, frame_vars, ghost_vars,
          lib_vars, twin_vars>>

NoInput == [kind |-> "none", arg |-> 0]
NoAba == [phase |-> 0, vis |-> <<>>, last |-> <<>>]

\* LoggerUi::default(), Logger's initial value, and the builder's choices.
Init ==
    /\ logs = <<>>
    /\ categories = <<>>
    /\ max_category_length = 0
    /\ show_all_categories \in BOOLEAN
    /\ lock_owner = NoOwner
    /\ log_poisoned = FALSE
    /\ sink_pc = [t \in Threads |-> "idle"]
    /\ pending = [t \in Threads |-> NoEvent]
    /\ loglevels = <<TRUE, TRUE, TRUE, FALSE, FALSE>>
    /\ search_term = <<>>
    /\ regex = None
    /\ search_case_sensitive = FALSE
    /\ search_use_regex = FALSE
    /\ max_log_length = DefaultMaxLogLength
    /\ time_format = "LocalTime"
    /\ time_precision = "Seconds"
    /\ search_cache = <<>>
    /\ layout_cache = <<>>
    /\ cache_layouts \in BOOLEAN
    /\ ui_poisoned = FALSE
    /\ pc = "idle"
    /\ input = NoInput
    /\ dropped_entries = 0
    /\ search_changed = FALSE
    /\ filtered_logs = <<>>
    /\ rendered = "never"
    /\ fault = "none"
    /\ emits = 0
    /\ inputs_used = 0
    /\ appended_total = 0
    /\ appended_count = 0
    /\ cap_used = DefaultMaxLogLength
    /\ evicted = FALSE
    /\ raised_after_evict = FALSE
    /\ search_src = <<>>
    /\ uncached_search = <<>>
    /\ layout_src = <<>>
    /\ format_calls = 0
    /\ match_calls = 0
    /\ fresh = FALSE
    /\ stable = FALSE
    /\ aba = NoAba
    /\ log_size = 0
    /\ trim_left = <<>>
    /\ iterated = <<>>

\* ------------------------------------------------------------------ sink
\* EguiLogger::enabled
enabled(level) == level <= STATIC_MAX_LEVEL

\* The store marks a first-seen category with the default visibility.
NoteCategory(cats, target) ==
    IF target \in DOMAIN cats THEN cats
    ELSE [c \in DOMAIN cats \cup {target} |->
            IF c = target THEN show_all_categories ELSE cats[c]]

\* ... and keeps the running maximum of the category names' lengths.
NoteCategoryLength(mcl, cats, target) ==
    IF target \in DOMAIN cats THEN mcl ELSE Max(mcl, Len(target))

\* The record logs.push(..) appends for an event.
NewRecord(ev) ==
    [level |-> ev.level, target |-> ev.target, message |-> ev.message,
     time |-> TimeOf(appended_total + 1)]

\* A sink that takes the guard out of a poisoned mutex and appends.
PushOrDrop_IgnorePoison(ev) ==
    /\ logs' = Append(logs, NewRecord(ev))
    /\ categories' = NoteCategory(categories, ev.target)
    /\ max_category_length' =
           NoteCategoryLength(max_category_length, categories, ev.target)
    /\ appended_total' = appended_total + 1
    /\ appended_count' = appended_count + 1
    /\ stable' = FALSE
    /\ aba' = NoAba

\* A sink that inserts the new record before the stored ones.
PushOrDrop_AtFront(ev) ==
    IF log_poisoned
    THEN UNCHANGED <<logs, categories, max_category_length, appended_total,
                     appended_count, stable, aba>>
    ELSE /\ logs' = <<NewRecord(ev)>> \o logs
         /\ aba' = NoAba
         /\ categories' = NoteCategory(categories, ev.target)
         /\ max_category_length' =
                NoteCategoryLength(max_category_length, categories, ev.target)
         /\ appended_total' = appended_total + 1
         /\ appended_count' = appended_count + 1
         /\ stable' = FALSE

\* try_mut_log(|logs| logs.push(..)) once lock() has the mutex: the closure
\* runs on Ok, and the event is dropped on Err (a poisoned mutex).
PushOrDrop(ev) ==
    IF log_poisoned
    THEN UNCHANGED <<logs, categories, max_category_length, appended_total,
                     appended_count, stable, aba>>
    ELSE /\ logs' = Append(logs, NewRecord(ev))
         /\ aba' = NoAba
         /\ categories' = NoteCategory(categories, ev.target)
         /\ max_category_length' =
                NoteCategoryLength(max_category_length, categories, ev.target)
         /\ appended_total' = appended_total + 1
         /\ appended_count' = appended_count + 1
         /\ stable' = FALSE

\* EguiLogger::log on thread t: the enabled check, then LOG.lock(). With the
\* mutex free the critical section runs; with the mutex held lock() parks
\* the calling thread.
SinkLog(t, ev) ==
    /\ sink_pc[t] = "idle"
    /\ emits < MaxEmits
    /\ emits' = emits + 1
    /\ fresh' = FALSE
    /\ IF ~enabled(ev.level)
       THEN UNCHANGED <<logs, categories, max_category_length, appended_total,
                        appended_count, stable, aba, sink_vars>>
       ELSE IF lock_owner = NoOwner
       THEN PushOrDrop(ev) /\ UNCHANGED sink_vars
       ELSE /\ sink_pc' = [sink_pc EXCEPT ![t] = "blocked"]
            /\ pending' = [pending EXCEPT ![t] = ev]
            /\ UNCHANGED <<logs, categories, max_category_length,
                           appended_total, appended_count, stable, aba>>
    /\ UNCHANGED twin_vars
    /\ UNCHANGED <<show_all_categories, lock_owner, log_poisoned, filter_vars,
                   cache_vars, frame_vars, inputs_used, cap_used, evicted,
                   raised_after_evict, search_src, layout_src, format_calls,
                   match_calls, lib_vars>>

\* lock() returns on thread t once the holder has released the mutex.
SinkResume(t) ==
    /\ sink_pc[t] = "blocked"
    /\ lock_owner = NoOwner
    /\ PushOrDrop(pending[t])
    /\ sink_pc' = [sink_pc EXCEPT ![t] = "idle"]
    /\ pending' = [pending EXCEPT ![t] = NoEvent]
    /\ fresh' = FALSE
    /\ UNCHANGED twin_vars
    /\ UNCHANGED <<show_all_categories, lock_owner, log_poisoned, filter_vars,
                   cache_vars, frame_vars, emits, inputs_used, cap_used,
                   evicted, raised_after_evict, search_src, layout_src,
                   format_calls, match_calls, lib_vars>>

\* EguiLogger::log of an event whose Display implementation panics:
\* record.args().to_string() runs inside the closure, under the guard, and
\* the unwinding poisons the mutex.
SinkLogPanics(t) ==
    /\ sink_pc[t] = "idle"
    /\ emits < MaxEmits
    /\ lock_owner = NoOwner
    /\ ~log_poisoned
    /\ log_poisoned' = TRUE
    /\ emits' = emits + 1
    /\ fresh' = FALSE
    /\ UNCHANGED twin_vars
    /\ UNCHANGED <<logs, categories, max_category_length, show_all_categories,
                   lock_owner, sink_vars, filter_vars, cache_vars, frame_vars,
                   inputs_used, appended_total, appended_count, cap_used,
                   evicted, raised_after_evict, search_src, layout_src,
                   format_calls, match_calls, stable, aba, lib_vars>>

\* ----------------------------------------------------------------- frame
\* usize::saturating_sub
SaturatingSub(a, b) == IF a > b THEN a - b ELSE 0

\* drop(v.drain(..k))
DrainFront(v, k) == SubSeq(v, k + 1, Len(v))

\* A trim that drains nothing.
TrimmedLogs_NoTrim(lg, cap) == lg

\* The store after logs.drain(..dropped_entries).
TrimmedLogs(lg, cap) == DrainFront(lg, SaturatingSub(Len(lg), cap))

\* A drain that removes the newest entries instead of the oldest.
SyncSearchCache_FromBack(cache, dropped) ==
    IF dropped > 0
    THEN SubSeq(cache, 1, Len(cache) - Min(dropped, Len(cache)))
    ELSE cache

\* The search cache after the front entries of the drained records are removed.
SyncSearchCache(cache, dropped) ==
    IF dropped > 0 THEN DrainFront(cache, Min(dropped, Len(cache))) ELSE cache

\* A layout cache that is left as it is when records are drained.
SyncLayoutCache_NoDrain(cache, dropped) == cache

\* The layout cache after the same, when layouts are cached.
SyncLayoutCache(cache, dropped) ==
    IF dropped > 0 /\ cache_layouts
    THEN DrainFront(cache, Min(dropped, Len(cache)))
    ELSE cache

\* LoggerUi::show and the head of LoggerUi::ui: the LOGGER_UI lock, the
\* LOGGER lock, the trim to max_log_length and the caches' drain.
FrameBegin ==
    /\ pc = "idle"
    /\ lock_owner = NoOwner
    /\ fresh' = FALSE
    /\ IF ui_poisoned \/ log_poisoned
       THEN /\ rendered' = IF ui_poisoned THEN "placeholder" ELSE "nothing"
            /\ UNCHANGED <<logs, lock_owner, search_cache, layout_cache, pc,
                           uncached_search,
                           dropped_entries, cap_used, evicted, input,
                           search_changed, filtered_logs,
                           raised_after_evict, search_src, layout_src,
                           format_calls, match_calls, aba>>
       ELSE LET d == SaturatingSub(Len(logs), max_log_length)
            IN  /\ lock_owner' = "ui"
                /\ dropped_entries' = d
                /\ logs' = TrimmedLogs(logs, max_log_length)
                /\ search_cache' = SyncSearchCache(search_cache, d)
                /\ search_src' = SyncSearchCache(search_src, d)
                /\ uncached_search' = SyncSearchCache(uncached_search, d)
                /\ layout_cache' = SyncLayoutCache(layout_cache, d)
                /\ layout_src' = SyncLayoutCache(layout_src, d)
                /\ pc' = "frame"
                /\ format_calls' = 0
                /\ match_calls' = 0
                /\ cap_used' = max_log_length
                /\ evicted' = (evicted \/ d > 0)
                /\ raised_after_evict' =
                       (raised_after_evict \/ (evicted /\ max_log_length > cap_used))
                /\ aba' = IF d > 0 THEN NoAba ELSE aba
                /\ input' = NoInput
                /\ search_changed' = FALSE
                /\ filtered_logs' = <<>>
                /\ UNCHANGED rendered
    /\ UNCHANGED <<categories, max_category_length, show_all_categories,
                   log_poisoned, sink_vars, filter_vars, cache_layouts,
                   fault, ui_poisoned, emits,
                   inputs_used, appended_total, appended_count, stable,
                   lib_vars>>

Input(k, a) == [kind |-> k, arg |-> a]

\* What the user can do to the widgets of one frame.
FrameInputs ==
    {NoInput, Input("clear", 0), Input("select_all", 0),
     Input("unselect_all", 0), Input("case", 0), Input("regex", 0)}
    \cup {Input("level", l) : l \in ClickLevels}
    \cup {Input("category", c) : c \in DOMAIN categories}
    \cup {Input("time_format", f) : f \in TimeFormatChoices \ {time_format}}
    \cup {Input("time_precision", p) : p \in TimePrecisions \ {time_precision}}
    \cup {Input("search", term) : term \in SearchTerms \ {search_term}}
    \cup {Input("maxlen", n) : n \in MaxLenChoices \ {max_log_length}}

\* The inputs that change the records or the level and category filters.
DataKinds == {"clear", "level", "select_all", "unselect_all", "category"}

\* The categories after the "Categories" menu.
CategoriesAfter(cats, inp) ==
    CASE inp.kind = "select_all" -> [c \in DOMAIN cats |-> TRUE]
      [] inp.kind = "unselect_all" -> [c \in DOMAIN cats |-> FALSE]
      [] inp.kind = "category" -> [cats EXCEPT ![inp.arg] = ~cats[inp.arg]]
      [] OTHER -> cats

\* A search row that keeps the pattern it has when the new one fails to
\* compile.
RegexAfter_KeepOnError(re, term, case_sensitive, use_regex, changed) ==
    IF enable_regex /\ use_regex /\ changed
          /\ RegexBuild(term, ~case_sensitive).some
    THEN RegexBuild(term, ~case_sensitive)
    ELSE re

\* A search row that compiles a pattern only while it holds none.
RegexAfter_CompileOnce(re, term, case_sensitive, use_regex, changed) ==
    IF enable_regex /\ use_regex /\ changed /\ ~re.some
    THEN RegexBuild(term, ~case_sensitive)
    ELSE re

\* The compiled pattern after the search row.
RegexAfter(re, term, case_sensitive, use_regex, changed) ==
    IF enable_regex /\ use_regex /\ changed
    THEN RegexBuild(term, ~case_sensitive)
    ELSE re

\* The search settings match_string reads.
Filter ==
    [term |-> search_term, regex |-> regex,
     case_sensitive |-> search_case_sensitive, use_regex |-> search_use_regex]

\* The style options and column width format_record reads.
Style ==
    [time_format |-> time_format, time_precision |-> time_precision,
     max_category_length |-> max_category_length]

\* logger.logs.last().map_or(0, |record| format_time(..).len())
TimePadding(lg, st) ==
    IF lg = <<>> THEN 0
    ELSE Len(format_time(lg[Len(lg)].time, st.time_format, st.time_precision))

\* The text of a record under a style and its column widths.
TextOf(rec, st, tp) ==
    format_record(rec, st.time_format, st.time_precision,
                  st.max_category_length, tp)

\* A layout cache that is formatted anew on every frame.
ExtendLayout_Reformat(lc, lg, st, tp) ==
    IF cache_layouts
    THEN [i \in 1..Len(lg) |-> TextOf(lg[i], st, tp)]
    ELSE lc

\* The layout cache after the records beyond its length are formatted.
ExtendLayout(lc, lg, st, tp) ==
    IF cache_layouts
    THEN lc \o [i \in 1..(Len(lg) - Len(lc)) |-> TextOf(lg[Len(lc) + i], st, tp)]
    ELSE lc

\* A plain search that folds case whatever the "Aa" toggle says.
match_string_FoldAlways(string, f) ==
    IF f.use_regex
    THEN IF f.regex.some THEN IsMatch(f.regex.value, string) ELSE FALSE
    ELSE Contains(ToLowercase(string), ToLowercase(f.term))

\* LoggerUi::match_string
match_string(string, f) ==
    IF f.use_regex
    THEN IF f.regex.some THEN IsMatch(f.regex.value, string) ELSE FALSE
    ELSE IF f.case_sensitive
    THEN Contains(string, f.term)
    ELSE Contains(ToLowercase(string), ToLowercase(f.term))

\* update_search_cache reads the layout cache when it covers the records.
UseLayout(lc, lg) == cache_layouts /\ Len(lc) = Len(lg)

\* Entries computed with the search settings as they were before the
\* frame's widgets ran.
SearchEntries_StaleFilter(lc, lg, st, f, tp, start) ==
    [i \in 1..(Len(lg) - start) |->
        match_string(IF UseLayout(lc, lg) THEN lc[start + i]
                     ELSE TextOf(lg[start + i], st, tp), Filter)]

\* The entries update_search_cache pushes for the records after start: a
\* match of the cached layout's text, or of the record formatted now.
SearchEntries(lc, lg, st, f, tp, start) ==
    [i \in 1..(Len(lg) - start) |->
        match_string(IF UseLayout(lc, lg) THEN lc[start + i]
                     ELSE TextOf(lg[start + i], st, tp), f)]

\* An update that appends after the entries it has even when asked for a
\* full rebuild.
update_search_cache_NeverRebuild(sc, src, lc, lg, st, f, tp, full_rebuild) ==
    LET start == Len(sc)
        new_count == Len(lg) - start
        new_src == [i \in 1..new_count |-> lg[start + i].time]
    IN  IF new_count < 0
        THEN [cache |-> sc, src |-> src, matches |-> 0, formats |-> 0,
              fault |-> "underflow"]
        ELSE IF new_count = 0
        THEN [cache |-> sc, src |-> src, matches |-> 0, formats |-> 0,
              fault |-> "none"]
        ELSE IF f.term = <<>>
        THEN [cache |-> sc \o [i \in 1..new_count |-> TRUE],
              src |-> src \o new_src, matches |-> 0, formats |-> 0,
              fault |-> "none"]
        ELSE [cache |-> sc \o SearchEntries(lc, lg, st, f, tp, start),
              src |-> src \o new_src, matches |-> new_count,
              formats |-> IF UseLayout(lc, lg) THEN 0 ELSE new_count,
              fault |-> "none"]

\* LoggerUi::update_search_cache: the cache, with the record each entry was
\* computed from and the calls made. lc is the layout cache as extended.
update_search_cache(sc, src, lc, lg, st, f, tp, full_rebuild) ==
    LET start == IF full_rebuild THEN 0 ELSE Len(sc)
        base == IF full_rebuild THEN <<>> ELSE sc
        base_src == IF full_rebuild THEN <<>> ELSE src
        new_count == Len(lg) - start
        use_layout == UseLayout(lc, lg)
        new_src == [i \in 1..new_count |-> lg[start + i].time]
    IN  IF new_count < 0
        THEN [cache |-> sc, src |-> src, matches |-> 0, formats |-> 0,
              fault |-> "underflow"]
        ELSE IF new_count = 0
        THEN [cache |-> base, src |-> base_src, matches |-> 0, formats |-> 0,
              fault |-> "none"]
        ELSE IF f.term = <<>>
        THEN [cache |-> base \o [i \in 1..new_count |-> TRUE],
              src |-> base_src \o new_src, matches |-> 0, formats |-> 0,
              fault |-> "none"]
        ELSE [cache |-> base \o SearchEntries(lc, lg, st, f, tp, start),
              src |-> base_src \o new_src, matches |-> new_count,
              formats |-> IF use_layout THEN 0 ELSE new_count,
              fault |-> "none"]

\* A filter that leaves the levels out.
Passes_IgnoreLevel(i, lg, lv, cats, sc) ==
    /\ ~(lg[i].target \in DOMAIN cats /\ ~cats[lg[i].target])
    /\ (IF i <= Len(sc) THEN sc[i] ELSE TRUE)

\* A filter that leaves the categories out.
Passes_IgnoreCategory(i, lg, lv, cats, sc) ==
    /\ lv[lg[i].level]
    /\ (IF i <= Len(sc) THEN sc[i] ELSE TRUE)

\* The three filters over logs.iter().enumerate(); positions count from 1.
Passes(i, lg, lv, cats, sc) ==
    /\ lv[lg[i].level]
    /\ ~(lg[i].target \in DOMAIN cats /\ ~cats[lg[i].target])
    /\ (IF i <= Len(sc) THEN sc[i] ELSE TRUE)

\* filtered_logs
FilteredLogs(lg, lv, cats, sc) ==
    SelectSeq([i \in 1..Len(lg) |-> i], LAMBDA i : Passes(i, lg, lv, cats, sc))

TermA == <<"a">>
TermB == <<"b">>

\* Where the refresh with input inp that ends with term and the visible
\* list vis stands in the sequence: a refresh with term "a", the next with
\* the term edited to "b", the next with the term edited back to "a"
\* (phase 3), the records and the level and category filters the same
\* throughout. From phase 1 on, vis is the list of the first of these and
\* last the list of the latest refresh with term "a".
AbaAfter(now, inp, term, vis) ==
    IF term = TermA
    THEN IF now.phase = 2 /\ inp.kind = "search"
         THEN [phase |-> 3, vis |-> now.vis, last |-> vis]
         ELSE [phase |-> 1, vis |-> vis, last |-> vis]
    ELSE IF term = TermB /\ inp.kind = "search" /\ now.phase \in {1, 3}
    THEN [phase |-> 2, vis |-> now.last, last |-> now.last]
    ELSE NoAba

\* The inputs that change neither the filter state nor the records.
QuietKinds == {"none", "time_format", "time_precision"}

\* A panic inside the frame unwinds through both guards: both mutexes are
\* poisoned and released.
Unwind(why) ==
    /\ fault' = why
    /\ ui_poisoned' = TRUE
    /\ log_poisoned' = TRUE
    /\ lock_owner' = NoOwner
    /\ pc' = "idle"
    /\ rendered' = "panic"
    /\ stable' = FALSE
    /\ fresh' = FALSE

\* A Clear button that empties the records and leaves the caches.
ClearedCache_Kept(cache, cleared) == cache

\* The Clear button empties a cache together with the records.
ClearedCache(cache, cleared) == IF cleared THEN <<>> ELSE cache

\* The rest of LoggerUi::ui, under the guards FrameBegin took. The widgets,
\* in the order of the code: Clear, Log Levels, Categories, Time, the
\* search row, Max Log output. Then time_padding, the layout cache's
\* extension, update_search_cache, the filtered list, the rows (each reads
\* layout_cache[log_idx] or formats its record) and the counts; then both
\* guards are dropped.
FrameBody(inp) ==
    /\ pc = "frame"
    /\ inputs_used' = IF inp.kind = "none" THEN inputs_used ELSE inputs_used + 1
    /\ input' = inp
    /\ logs' = IF inp.kind = "clear" THEN <<>> ELSE logs
    /\ appended_count' = IF inp.kind = "clear" THEN 0 ELSE appended_count
    /\ evicted' = IF inp.kind = "clear" THEN FALSE ELSE evicted
    /\ raised_after_evict' =
           IF inp.kind = "clear" THEN FALSE ELSE raised_after_evict
    /\ loglevels' = IF inp.kind = "level"
                    THEN [loglevels EXCEPT ![inp.arg] = ~loglevels[inp.arg]]
                    ELSE loglevels
    /\ categories' = CategoriesAfter(categories, inp)
    /\ time_format' = IF inp.kind = "time_format" THEN inp.arg ELSE time_format
    /\ time_precision' =
           IF inp.kind = "time_precision" THEN inp.arg ELSE time_precision
    /\ search_term' = IF enable_search /\ inp.kind = "search"
                      THEN inp.arg ELSE search_term
    /\ search_case_sensitive' =
           IF enable_search /\ inp.kind = "case"
           THEN ~search_case_sensitive ELSE search_case_sensitive
    /\ search_use_regex' =
           IF enable_search /\ enable_regex /\ inp.kind = "regex"
           THEN ~search_use_regex ELSE search_use_regex
    /\ search_changed' = (enable_search /\ inp.kind \in {"search", "case", "regex"})
    /\ regex' = IF enable_search
                THEN RegexAfter(regex, search_term', search_case_sensitive',
                                search_use_regex', search_changed')
                ELSE regex
    /\ max_log_length' = IF inp.kind = "maxlen" THEN inp.arg ELSE max_log_length
    /\ UNCHANGED <<max_category_length, show_all_categories, sink_vars,
                   cache_layouts, dropped_entries, emits, appended_total,
                   cap_used, lib_vars>>
    /\ LET cleared == inp.kind = "clear"
           sc0 == ClearedCache(search_cache, cleared)
           ss0 == ClearedCache(search_src, cleared)
           lc0 == ClearedCache(layout_cache, cleared)
           ls0 == ClearedCache(layout_src, cleared)
           tp == TimePadding(logs', Style')
           lc == ExtendLayout(lc0, logs', Style', tp)
           r == update_search_cache(sc0, ss0, lc, logs', Style', Filter', tp,
                                    search_changed')
           twin == update_search_cache(ClearedCache(uncached_search, cleared),
                                       ss0, <<>>, logs', Style', Filter', tp,
                                       search_changed')
           vis == FilteredLogs(logs', loglevels', categories', r.cache)
           why == IF r.fault # "none" THEN r.fault
                  ELSE IF cache_layouts
                          /\ \E j \in 1..Len(vis) : vis[j] > Len(lc)
                  THEN "index"
                  ELSE "none"
       IN  /\ layout_cache' = lc
           /\ layout_src' =
                  IF cache_layouts
                  THEN ls0 \o [i \in 1..(Len(logs') - Len(lc0)) |->
                                  logs'[Len(lc0) + i].time]
                  ELSE ls0
           /\ search_cache' = r.cache
           /\ search_src' = r.src
           /\ uncached_search' = twin.cache
           /\ match_calls' = r.matches
           /\ format_calls' = (Len(lc) - Len(lc0)) + r.formats
                                 + (IF cache_layouts THEN 0 ELSE Len(vis))
           /\ filtered_logs' = vis
           /\ IF why = "none"
              THEN /\ rendered' = "list"
                   /\ lock_owner' = NoOwner
                   /\ pc' = "idle"
                   /\ fresh' = TRUE
                   /\ stable' = (inp.kind \in QuietKinds)
                   /\ aba' = AbaAfter(IF inp.kind \in DataKinds THEN NoAba ELSE aba,
                                      inp, search_term', vis)
                   /\ UNCHANGED <<fault, ui_poisoned, log_poisoned>>
              ELSE /\ Unwind(why)
                   /\ UNCHANGED aba

\* The inputs of S a run that goes through at most `budget` widget
\* interactions can still take.
Within(S, budget) == {inp \in S : inp.kind = "none" \/ inputs_used < budget}

Next ==
    \/ \E t \in Threads, ev \in Events : SinkLog(t, ev)
    \/ \E t \in Threads : SinkResume(t)
    \/ \E t \in Threads : SinkLogPanics(t)
    \/ FrameBegin
    \/ \E inp \in Within(FrameInputs, MaxInputs) : FrameBody(inp)

Spec == Init /\ [][Next]_vars

\* ------------------------------------------------- the viewer of lib.rs
\* lib.rs carries its own LoggerUi::ui, without caches and with a Sort
\* button. It takes the store lock anew for each of its accesses: the trim,
\* Clear, Sort, the list, the "Log size" label. Each access is one step; the
\* sink runs between them.

\* The characters of the model in the order of their bytes.
ByteOrder ==
    <<" ", "(", "-", ".", "0", "1", "2", "3", "4", "5", "6", "7", "8", "9",
      ":", "A", "B", "C", "D", "E", "F", "G", "H", "I", "J", "K", "L", "M",
      "N", "O", "P", "Q", "R", "S", "T", "U", "V", "W", "X", "Y", "Z", "[",
      "]", "^", "a", "b", "c", "d", "e", "f", "g", "h", "i", "j", "k", "l",
      "m", "n", "o", "p", "q", "r", "s", "t", "u", "v", "w", "x", "y", "z">>

Rank(c) == CHOOSE i \in 1..Len(ByteOrder) : ByteOrder[i] = c

RECURSIVE StrLess(_, _)
\* String's Ord: byte by byte, a proper prefix first.
StrLess(a, b) ==
    IF b = <<>> THEN FALSE
    ELSE IF a = <<>> THEN TRUE
    ELSE IF Rank(a[1]) # Rank(b[1]) THEN Rank(a[1]) < Rank(b[1])
    ELSE StrLess(Tail(a), Tail(b))

\* Ord of (log::Level, String): Error first, then by the message.
LessRecord(a, b) ==
    \/ a.level < b.level
    \/ a.level = b.level /\ StrLess(a.message, b.message)

RECURSIVE InsertSorted(_, _)
InsertSorted(sorted, r) ==
    IF sorted = <<>> THEN <<r>>
    ELSE IF LessRecord(r, Head(sorted)) THEN <<r>> \o sorted
    ELSE <<Head(sorted)>> \o InsertSorted(Tail(sorted), r)

RECURSIVE SortLogs(_)
\* logs.sort(): stable, ascending.
SortLogs(lg) ==
    IF lg = <<>> THEN <<>>
    ELSE InsertSorted(SortLogs(SubSeq(lg, 1, Len(lg) - 1)), lg[Len(lg)])

\* The times of a sequence of records: which records they are.
TimesOf(lg) == [i \in 1..Len(lg) |-> lg[i].time]

\* What the user can do to the widgets of one frame of lib.rs.
LibInputs ==
    {NoInput, Input("clear", 0), Input("case", 0), Input("regex", 0),
     Input("sort", 0)}
    \cup {Input("level", l) : l \in ClickLevels}
    \cup {Input("search", term) : term \in SearchTerms \ {search_term}}
    \cup {Input("maxlen", n) : n \in MaxLenChoices \ {max_log_length}}

\* logger_ui and the head of lib.rs's LoggerUi::ui: try_mut_log trims the
\* store to max_log_length, or does nothing on a poisoned mutex.
LibTrim ==
    /\ pc = "idle"
    /\ lock_owner = NoOwner
    /\ pc' = "lib_controls"
    /\ fresh' = FALSE
    /\ input' = NoInput
    /\ filtered_logs' = <<>>
    /\ cap_used' = max_log_length
    /\ IF log_poisoned
       THEN /\ dropped_entries' = 0
            /\ trim_left' = <<>>
            /\ UNCHANGED logs
       ELSE /\ dropped_entries' = SaturatingSub(Len(logs), max_log_length)
            /\ logs' = TrimmedLogs(logs, max_log_length)
            /\ trim_left' = TimesOf(logs')
    /\ UNCHANGED twin_vars
    /\ UNCHANGED <<categories, max_category_length, show_all_categories,
                   lock_owner, log_poisoned, sink_vars, filter_vars,
                   cache_vars, search_changed, rendered, fault, ui_poisoned,
                   emits, inputs_used, appended_total, appended_count,
                   evicted, raised_after_evict, search_src, layout_src,
                   format_calls, match_calls, stable, aba, log_size, iterated>>

\* The widgets of lib.rs's frame: Clear, Log Levels, the search row, Max Log
\* output, Sort. Clear and Sort go through try_mut_log.
LibControls(inp) ==
    /\ pc = "lib_controls"
    /\ lock_owner = NoOwner
    /\ inp.kind = "none" \/ inputs_used < MaxInputs
    /\ inputs_used' = IF inp.kind = "none" THEN inputs_used ELSE inputs_used + 1
    /\ pc' = "lib_list"
    /\ input' = inp
    /\ logs' = IF log_poisoned THEN logs
               ELSE IF inp.kind = "clear" THEN <<>>
               ELSE IF inp.kind = "sort" THEN SortLogs(logs)
               ELSE logs
    /\ appended_count' = IF inp.kind = "clear" /\ ~log_poisoned
                         THEN 0 ELSE appended_count
    /\ loglevels' = IF inp.kind = "level"
                    THEN [loglevels EXCEPT ![inp.arg] = ~loglevels[inp.arg]]
                    ELSE loglevels
    /\ search_term' = IF inp.kind = "search" THEN inp.arg ELSE search_term
    /\ search_case_sensitive' =
           IF inp.kind = "case" THEN ~search_case_sensitive
           ELSE search_case_sensitive
    /\ search_use_regex' =
           IF inp.kind = "regex" THEN ~search_use_regex ELSE search_use_regex
    /\ search_changed' = (inp.kind \in {"search", "case", "regex"})
    /\ regex' = RegexAfter(regex, search_term', search_case_sensitive',
                           search_use_regex', search_changed')
    /\ max_log_length' = IF inp.kind = "maxlen" THEN inp.arg ELSE max_log_length
    /\ UNCHANGED twin_vars
    /\ UNCHANGED <<categories, max_category_length, show_all_categories,
                   lock_owner, log_poisoned, sink_vars, time_format,
                   time_precision, cache_vars, dropped_entries, filtered_logs,
                   rendered, fault, ui_poisoned, emits, appended_total,
                   cap_used, evicted, raised_after_evict, search_src,
                   layout_src, format_calls, match_calls, fresh, stable, aba,
                   lib_vars>>

\* The closure of lib.rs's list: a record is skipped when the term is not
\* empty and its message does not match, or when its level is off.
LibShown(rec, lv, f) ==
    ~((f.term # <<>> /\ ~match_string(rec.message, f)) \/ ~lv[rec.level])

\* The scroll area of lib.rs's frame: try_get_log goes over the store.
LibList ==
    /\ pc = "lib_list"
    /\ lock_owner = NoOwner
    /\ pc' = "lib_size"
    /\ filtered_logs' =
           IF log_poisoned THEN <<>>
           ELSE SelectSeq([i \in 1..Len(logs) |-> i],
                          LAMBDA i : LibShown(logs[i], loglevels, Filter))
    /\ iterated' = IF log_poisoned THEN <<>> ELSE TimesOf(logs)
    /\ UNCHANGED twin_vars
    /\ UNCHANGED <<store_vars, sink_vars, filter_vars, cache_vars, input,
                   dropped_entries, search_changed, rendered, fault,
                   ui_poisoned, ghost_vars, log_size, trim_left>>

\* The labels under the list: try_get_log(|logs| logs.len()).unwrap_or_default()
\* and the count of the rows shown; the frame ends.
LibSize ==
    /\ pc = "lib_size"
    /\ lock_owner = NoOwner
    /\ pc' = "idle"
    /\ log_size' = IF log_poisoned THEN 0 ELSE Len(logs)
    /\ rendered' = "list"
    /\ fresh' = TRUE
    /\ UNCHANGED twin_vars
    /\ UNCHANGED <<store_vars, sink_vars, filter_vars, cache_vars, input,
                   dropped_entries, search_changed, filtered_logs, fault,
                   ui_poisoned, emits, inputs_used, appended_total,
                   appended_count, cap_used, evicted, raised_after_evict,
                   search_src, layout_src, format_calls, match_calls, stable,
                   aba, trim_left, iterated>>

LibNext ==
    \/ \E t \in Threads, ev \in Events : SinkLog(t, ev)
    \/ \E t \in Threads : SinkLogPanics(t)
    \/ LibTrim
    \/ \E inp \in LibInputs : LibControls(inp)
    \/ LibList
    \/ LibSize

\* The program with lib.rs's viewer.
LibSpec == Init /\ [][LibNext]_vars

\* ------------------------------------------------- the search scenarios
\* The viewer of ui.rs over a store that already holds a data set, with no
\* further appends: the frames and the search row only.

TermError == <<"e", "r", "r", "o", "r">>
TermAnchored == <<"^">> \o TermError
TermInvalid == <<"(">>

\* What the user types into the search box in the scenarios.
ScenarioTerms == {<<>>, TermError, TermAnchored, TermInvalid}

\* PerLevel records at each level, Error first.
LevelData ==
    [k \in 1..(5 * PerLevel) |->
        [level |-> ((k - 1) \div PerLevel) + 1, target |-> <<"a">>,
         message |-> <<"m">>, time |-> TimeOf(k)]]

ErrorMessages ==
    << <<"E", "r", "r", "o", "r", " ", "A">>,
       <<"e", "r", "r", "o", "r", " ", "b">>,
       <<"E", "R", "R", "O", "R", " ", "c">> >>

\* Three Info records with the messages "Error A", "error b", "ERROR c".
ErrorData ==
    [k \in 1..3 |->
        [level |-> 3, target |-> <<"a">>, message |-> ErrorMessages[k],
         time |-> TimeOf(k)]]

\* The state after the data set's events were logged from one target with
\* show_all_categories on, before the first frame; the viewer as
\* LoggerUi::default() or after .log_levels([true; 5]).
ScenarioInit ==
    /\ logs \in {LevelData, ErrorData}
    /\ categories = [c \in {<<"a">>} |-> TRUE]
    /\ max_category_length = 1
    /\ show_all_categories = TRUE
    /\ lock_owner = NoOwner
    /\ log_poisoned = FALSE
    /\ sink_pc = [t \in Threads |-> "idle"]
    /\ pending = [t \in Threads |-> NoEvent]
    /\ loglevels \in {<<TRUE, TRUE, TRUE, FALSE, FALSE>>,
                      <<TRUE, TRUE, TRUE, TRUE, TRUE>>}
    /\ search_term = <<>>
    /\ regex = None
    /\ search_case_sensitive = FALSE
    /\ search_use_regex = FALSE
    /\ max_log_length = DefaultMaxLogLength
    /\ time_format = "LocalTime"
    /\ time_precision = "Seconds"
    /\ search_cache = <<>>
    /\ layout_cache = <<>>
    /\ cache_layouts \in BOOLEAN
    /\ ui_poisoned = FALSE
    /\ pc = "idle"
    /\ input = NoInput
    /\ dropped_entries = 0
    /\ search_changed = FALSE
    /\ filtered_logs = <<>>
    /\ rendered = "never"
    /\ fault = "none"
    /\ emits = Len(logs)
    /\ inputs_used = 0
    /\ appended_total = Len(logs)
    /\ appended_count = Len(logs)
    /\ cap_used = DefaultMaxLogLength
    /\ evicted = FALSE
    /\ raised_after_evict = FALSE
    /\ search_src = <<>>
    /\ uncached_search = <<>>
    /\ layout_src = <<>>
    /\ format_calls = 0
    /\ match_calls = 0
    /\ fresh = FALSE
    /\ stable = FALSE
    /\ aba = NoAba
    /\ log_size = 0
    /\ trim_left = <<>>
    /\ iterated = <<>>

\* The widgets the scenarios use: the search box, "Aa", ".*", and the
\* Debug and Trace entries of the "Log Levels" menu.
ScenarioInputs ==
    {NoInput, Input("case", 0), Input("regex", 0), Input("level", 4),
     Input("level", 5)}
    \cup {Input("search", term) : term \in ScenarioTerms \ {search_term}}

ScenarioNext ==
    \/ FrameBegin
    \/ \E inp \in Within(ScenarioInputs, MaxScenarioInputs) : FrameBody(inp)

ScenarioSpec == ScenarioInit /\ [][ScenarioNext]_vars

\* ---------------------------------------------------- the category flag
\* The targets the application logs from.
CategoryNames == {ev.target : ev \in Events}

\* An insert that leaves the map as it is.
CategoriesInsert_Ignored(cats, c, enable) == cats

\* logger.categories.insert(category, enable)
CategoriesInsert(cats, c, enable) ==
    [k \in DOMAIN cats \cup {c} |-> IF k = c THEN enable ELSE cats[k]]

\* LoggerUi::enable_category, called on the builder chain before show():
\* LOGGER.lock().expect(..), then the insert. A poisoned mutex makes expect
\* panic on the thread that draws the UI.
EnableCategory(c, enable) ==
    /\ pc = "idle"
    /\ lock_owner = NoOwner
    /\ fresh' = FALSE
    /\ stable' = FALSE
    /\ aba' = NoAba
    /\ IF log_poisoned
       THEN /\ pc' = "crashed"
            /\ fault' = "expect"
            /\ rendered' = "panic"
            /\ UNCHANGED <<categories, input>>
       ELSE /\ categories' = CategoriesInsert(categories, c, enable)
            /\ input' = Input("enable_category", <<c, enable>>)
            /\ UNCHANGED <<pc, fault, rendered>>
    /\ UNCHANGED twin_vars
    /\ UNCHANGED <<logs, max_category_length, show_all_categories, lock_owner,
                   log_poisoned, sink_vars, filter_vars, cache_vars,
                   dropped_entries, search_changed, filtered_logs,
                   ui_poisoned, emits, inputs_used, appended_total,
                   appended_count, cap_used, evicted, raised_after_evict,
                   search_src, layout_src, format_calls, match_calls,
                   lib_vars>>

\* The entries of the "Categories" menu, and Debug of "Log Levels".
CategoryInputs ==
    {NoInput, Input("select_all", 0), Input("unselect_all", 0),
     Input("level", 4)}
    \cup {Input("category", c) : c \in DOMAIN categories}

CategoryNext ==
    \/ \E t \in Threads, ev \in Events : SinkLog(t, ev)
    \/ \E t \in Threads : SinkResume(t)
    \/ \E t \in Threads : SinkLogPanics(t)
    \/ \E c \in CategoryNames, enable \in BOOLEAN : EnableCategory(c, enable)
    \/ FrameBegin
    \/ \E inp \in Within(CategoryInputs, MaxInputs) : FrameBody(inp)

\* The program with enable_category calls between the frames.
CategorySpec == Init /\ [][CategoryNext]_vars

\* ------------------------------------------- logging on the UI thread
\* The widget code LoggerUi::ui calls runs on the UI thread between the
\* lock of the store and the drop of its guard, and that code logs through
\* the log facade like any other. The sink then calls lock() on a mutex its
\* own thread holds. std::sync::Mutex leaves that case open: the call does
\* not return, it parks the thread for good or it panics.
RelockOutcomes == {"deadlock", "panic"}

\* EguiLogger::log called on the UI thread inside the frame.
UiThreadLog(ev, outcome) ==
    /\ pc = "frame"
    /\ emits < MaxEmits
    /\ emits' = emits + 1
    /\ IF ~enabled(ev.level)
       THEN UNCHANGED <<pc, fault, ui_poisoned, log_poisoned, lock_owner,
                        rendered, stable, fresh>>
       ELSE IF outcome = "deadlock"
       THEN /\ pc' = "relock"
            /\ UNCHANGED <<fault, ui_poisoned, log_poisoned, lock_owner,
                           rendered, stable, fresh>>
       ELSE Unwind("relock")
    /\ UNCHANGED twin_vars
    /\ UNCHANGED <<logs, categories, max_category_length, show_all_categories,
                   sink_vars, filter_vars, cache_vars, input, dropped_entries,
                   search_changed, filtered_logs, inputs_used, appended_total,
                   appended_count, cap_used, evicted, raised_after_evict,
                   search_src, layout_src, format_calls, match_calls, aba,
                   lib_vars>>

\* The widgets the runs with logging on the UI thread go through.
LiveInputs == {NoInput, Input("clear", 0), Input("level", 4)}

LiveNext ==
    \/ \E t \in Threads, ev \in Events : SinkLog(t, ev)
    \/ \E t \in Threads : SinkResume(t)
    \/ FrameBegin
    \/ \E inp \in Within(LiveInputs, MaxInputs) : FrameBody(inp)
    \/ \E ev \in Events, outcome \in RelockOutcomes : UiThreadLog(ev, outcome)

\* A frame that has begun runs to its end, and a thread parked in lock()
\* gets the mutex if it is free again and again.
LiveSpec ==
    /\ Init
    /\ [][LiveNext]_vars
    /\ WF_vars(\E inp \in Within(LiveInputs, MaxInputs) : FrameBody(inp))
    /\ \A t \in Threads : SF_vars(SinkResume(t))

\* ------------------------------------------------ the installed viewer
\* The application builds a LoggerUi and calls show() on it every frame
\* (examples/benchmark.rs, examples/hello.rs). show() goes through log_ui(),
\* which keeps one LoggerUi in a OnceLock: get_or_init stores the value of
\* the first call and drops the value of every later one.

\* The LoggerUi values the application passes to show().
Builders ==
    [max_log_length : {DefaultMaxLogLength, 1},
     cache_layouts : BOOLEAN,
     loglevels : {<<TRUE, TRUE, TRUE, FALSE, FALSE>>,
                  <<TRUE, TRUE, TRUE, TRUE, TRUE>>}]

\* A OnceLock that never holds a value.
Installed_Never == FALSE

\* LOGGER_UI holds a value: show() has run before.
Installed == rendered # "never" \/ pc # "idle"

\* show() on builder b with LOGGER_UI empty: b becomes the viewer state, and
\* the head of LoggerUi::ui runs on it.
FirstShow(b) ==
    /\ pc = "idle"
    /\ lock_owner = NoOwner
    /\ loglevels' = b.loglevels
    /\ max_log_length' = b.max_log_length
    /\ cache_layouts' = b.cache_layouts
    /\ search_term' = <<>>
    /\ regex' = None
    /\ search_case_sensitive' = FALSE
    /\ search_use_regex' = FALSE
    /\ time_format' = "LocalTime"
    /\ time_precision' = "Seconds"
    /\ search_cache' = <<>>
    /\ layout_cache' = <<>>
    /\ search_src' = <<>>
    /\ layout_src' = <<>>
    /\ uncached_search' = <<>>
    /\ input' = NoInput
    /\ search_changed' = FALSE
    /\ filtered_logs' = <<>>
    /\ format_calls' = 0
    /\ match_calls' = 0
    /\ fresh' = FALSE
    /\ aba' = NoAba
    /\ IF ui_poisoned \/ log_poisoned
       THEN /\ rendered' = IF ui_poisoned THEN "placeholder" ELSE "nothing"
            /\ UNCHANGED <<logs, lock_owner, pc, dropped_entries, cap_used,
                           evicted, raised_after_evict>>
       ELSE LET d == SaturatingSub(Len(logs), b.max_log_length)
            IN  /\ lock_owner' = "ui"
                /\ dropped_entries' = d
                /\ logs' = TrimmedLogs(logs, b.max_log_length)
                /\ pc' = "frame"
                /\ cap_used' = b.max_log_length
                /\ evicted' = (evicted \/ d > 0)
                /\ raised_after_evict' =
                       (raised_after_evict
                        \/ (evicted /\ b.max_log_length > cap_used))
                /\ UNCHANGED rendered
    /\ UNCHANGED <<categories, max_category_length, show_all_categories,
                   log_poisoned, sink_vars, fault, ui_poisoned, emits,
                   inputs_used, appended_total, appended_count, stable,
                   lib_vars>>

\* LoggerUi::show on builder b.
Show(b) == IF Installed THEN FrameBegin ELSE FirstShow(b)

\* The widgets the runs with a builder per frame go through.
ShowInputs == {NoInput, Input("search", <<"a">>), Input("level", 4)}

ShowNext ==
    \/ \E t \in Threads, ev \in Events : SinkLog(t, ev)
    \/ \E t \in Threads : SinkResume(t)
    \/ \E t \in Threads : SinkLogPanics(t)
    \/ \E b \in Builders : Show(b)
    \/ \E inp \in Within(ShowInputs, MaxInputs) : FrameBody(inp)

\* The program with a LoggerUi built and shown every frame.
ShowSpec == Init /\ [][ShowNext]_vars

\* ------------------------------------------------------------ properties
RECURSIVE Ascending(_)
\* The members of a set of numbers, smallest first.
Ascending(S) ==
    IF S = {} THEN <<>>
    ELSE LET m == CHOOSE x \in S : \A y \in S : x <= y
         IN  <<m>> \o Ascending(S \ {m})

\* The positions the specification lists as visible.
Qualifying ==
    {i \in 1..Len(logs) :
        /\ loglevels[logs[i].level]
        /\ (logs[i].target \notin DOMAIN categories \/ categories[logs[i].target])
        /\ (search_term = <<>> \/ (i <= Len(search_cache) /\ search_cache[i]))}

\* C1: after every view refresh the visible list is exactly the ascending,
\* duplicate-free sequence of the positions whose level is enabled, whose
\* category is not explicitly disabled and, with a non-empty search term,
\* whose search cache entry is true.
C1_VisibleList == fresh => filtered_logs = Ascending(Qualifying)

\* A refresh that hid a record of two because of the search term.
C1_Witness ==
    /\ fresh
    /\ Len(logs) = 2
    /\ search_term # <<>>
    /\ filtered_logs = <<2>>
    /\ \A i \in 1..2 : loglevels[logs[i].level]

\* C2: after every view refresh each search cache entry equals
\* match_string on its record's text as the current style options and the
\* current column widths produce it.
C2_NeverStale ==
    fresh =>
        \A i \in 1..Len(logs) :
            /\ i <= Len(search_cache)
            /\ search_cache[i] =
                   match_string(TextOf(logs[i], Style, TimePadding(logs, Style)),
                                Filter)

\* C3 as stated: with layout caching, at the end of each refresh both caches
\* hold min(appended_count, max_retained) entries, max_retained being the
\* cap the refresh applied.
C3_MinOfCountAndCap ==
    (fresh /\ cache_layouts) =>
        /\ Len(search_cache) = Len(layout_cache)
        /\ Len(search_cache) = Min(appended_count, cap_used)

\* C3 as amended: with layout caching, at the end of each refresh both
\* caches hold one entry per retained record, at most the cap the refresh
\* applied; that is min(appended_count, cap) unless a refresh has applied a
\* larger cap than an earlier one after records were evicted.
C3_CacheLengths ==
    (fresh /\ cache_layouts) =>
        /\ Len(search_cache) = Len(layout_cache)
        /\ Len(search_cache) = Len(logs)
        /\ Len(logs) <= cap_used
        /\ (~raised_after_evict =>
                Len(search_cache) = Min(appended_count, cap_used))

\* A refresh that ended with the caches at the cap, records evicted.
C3_Witness ==
    /\ fresh
    /\ cache_layouts
    /\ evicted
    /\ ~raised_after_evict
    /\ appended_count > cap_used
    /\ Len(search_cache) = cap_used

\* Each cache entry was computed from the record now at its position.
Aligned ==
    /\ Len(search_src) = Len(search_cache)
    /\ Len(layout_src) = Len(layout_cache)
    /\ \A j \in 1..Len(search_src) : j <= Len(logs) /\ search_src[j] = logs[j].time
    /\ \A j \in 1..Len(layout_src) : j <= Len(logs) /\ layout_src[j] = logs[j].time

\* The retained records are the most recently appended ones.
MostRecent ==
    \A j \in 1..Len(logs) : logs[j].time = TimeOf(appended_total - Len(logs) + j)

\* What the head of a frame does to the store and the caches.
TrimStep ==
    (pc = "idle" /\ pc' = "frame") =>
        LET keep == Min(Len(logs), max_log_length)
            k == Len(logs) - keep
            ks == Min(k, Len(search_cache))
            kl == Min(k, Len(layout_cache))
        IN  /\ logs' = SubSeq(logs, k + 1, Len(logs))
            /\ search_cache' = SubSeq(search_cache, ks + 1, Len(search_cache))
            /\ cache_layouts =>
                   layout_cache' = SubSeq(layout_cache, kl + 1, Len(layout_cache))

\* C4: a refresh that trims k records from the front of the store drops the
\* first k entries (or all, if fewer) of both caches before anything is
\* appended or rebuilt, leaving the most recent records; every cache entry
\* was computed from the record now at its position.
C4_EvictionAlignment == [][TrimStep /\ Aligned' /\ MostRecent']_vars

\* A frame whose trim evicted records and kept cache entries.
C4_Witness ==
    /\ pc = "frame"
    /\ dropped_entries > 0
    /\ cache_layouts
    /\ Len(search_cache) > 0
    /\ Len(layout_cache) > 0

\* A step of a refresh that follows a refresh with nothing appended in
\* between and no input to the filter state or the records in either.
QuietFrameStep ==
    /\ stable
    /\ \/ pc = "idle" /\ pc' = "frame"
       \/ pc = "frame" /\ pc' = "idle" /\ input'.kind \in QuietKinds

\* C5: the second of two consecutive refreshes, with no record appended in
\* between and the filter state unchanged, leaves both caches as they were
\* and, with layouts cached, calls neither format_record nor match_string.
C5_Idempotent ==
    [][QuietFrameStep =>
          /\ search_cache' = search_cache
          /\ layout_cache' = layout_cache
          /\ (cache_layouts => format_calls' = 0 /\ match_calls' = 0)]_vars

\* The second refresh under way, over cached records and a search term.
C5_Witness ==
    /\ pc = "frame"
    /\ stable
    /\ cache_layouts
    /\ search_term # <<>>
    /\ Len(search_cache) = 2
    /\ Len(layout_cache) = 2

\* C6: over fixed records and fixed level and category filters, the
\* refresh after the term is edited from "a" to "b" and the refresh after it
\* is edited back to "a" being consecutive, the second refresh with "a"
\* lists what the first listed.
C6_RebuildSame == (fresh /\ aba.phase = 3) => filtered_logs = aba.vis

\* The term went "a", "b", "a" over two records, one of them listed.
C6_Witness ==
    /\ fresh
    /\ aba.phase = 3
    /\ Len(logs) = 2
    /\ Len(filtered_logs) = 1

C8_SinkNeverWaits == \A t \in Threads : sink_pc[t] # "blocked"

\* C9: with the store lock poisoned, a sink call drops its event: the
\* records, the categories and the count of appended records stay as they
\* are, nothing panics, and the call returns.
C9_PoisonedSinkDrops ==
    [][(log_poisoned /\ emits' # emits) =>
          /\ logs' = logs
          /\ categories' = categories
          /\ appended_total' = appended_total
          /\ sink_pc' = sink_pc
          /\ fault' = "none"
          /\ log_poisoned']_vars

\* A call made after the lock was poisoned has come and gone.
C9_Witness ==
    /\ log_poisoned
    /\ emits > appended_total + 1
    /\ \A t \in Threads : sink_pc[t] = "idle"

\* C10: a refresh that cannot take a lock it needs draws the error
\* placeholder.
C10_PlaceholderOnPoison == rendered # "nothing"

\* C11: in a frame without Clear or Sort, no sink append takes effect
\* between the trim and the list: the records the list goes over are those
\* the frame's trim left, at most max_log_length of them, and the reported
\* log size is their number.
C11_OneLockPerFrame ==
    (fresh /\ ~log_poisoned /\ input.kind \notin {"clear", "sort"}) =>
        /\ iterated = trim_left
        /\ Len(iterated) <= cap_used
        /\ log_size = Len(iterated)

\* C12: every record a refresh's cap enforcement removes was appended
\* before every record the same refresh retains.
C12_OldestEvictedFirst ==
    [][(pc = "idle" /\ pc' # "idle") =>
          \A i \in 1..(Len(logs) - Len(logs')), j \in 1..Len(logs') :
              logs[i].time < logs'[j].time]_vars

\* The level scenario: PerLevel records at each level, every category
\* enabled, Debug and Trace disabled and the other levels enabled.
LevelScenario ==
    /\ logs = LevelData
    /\ \A c \in DOMAIN categories : categories[c]
    /\ loglevels = <<TRUE, TRUE, TRUE, FALSE, FALSE>>

\* C13 as stated: in the level scenario a refresh lists exactly the records
\* of the three enabled levels' number, whatever the search term.
C13_CountRegardlessOfTerm ==
    (fresh /\ LevelScenario) => Len(filtered_logs) = 3 * PerLevel

\* C13 as amended: in the level scenario a refresh lists only records of
\* the three enabled levels; with an empty search term it lists all of
\* them, and with a non-empty term those of them whose search cache entry
\* is true.
C13_LevelFilter ==
    (fresh /\ LevelScenario) =>
        /\ \A j \in 1..Len(filtered_logs) : logs[filtered_logs[j]].level <= 3
        /\ search_term = <<>> => filtered_logs = [j \in 1..(3 * PerLevel) |-> j]
        /\ search_term # <<>> =>
               filtered_logs =
                   Ascending({i \in 1..(3 * PerLevel) :
                                 i <= Len(search_cache) /\ search_cache[i]})

\* Trace was just clicked off, Debug before it; the three other levels are
\* listed.
C13_Witness ==
    /\ fresh
    /\ LevelScenario
    /\ input = Input("level", 5)
    /\ search_term = <<>>
    /\ Len(filtered_logs) = 3 * PerLevel

\* The three-message scenario with a given term and search mode.
ErrorScenario(term, case_sensitive, use_regex) ==
    /\ logs = ErrorData
    /\ search_term = term
    /\ search_case_sensitive = case_sensitive
    /\ search_use_regex = use_regex

\* C14 as stated: term "error", case sensitive, no regex: none of "Error A",
\* "error b", "ERROR c" matches.
C14_NoneMatches ==
    (fresh /\ ErrorScenario(TermError, TRUE, FALSE)) =>
        /\ filtered_logs = <<>>
        /\ \A i \in 1..3 : ~match_string(logs[i].message, Filter)

\* C14 as amended: term "error", case sensitive, no regex: "error b", which
\* holds the term in the same case, matches and is listed; "Error A" and
\* "ERROR c" do not match.
C14_CaseSensitive ==
    (fresh /\ ErrorScenario(TermError, TRUE, FALSE)) =>
        /\ filtered_logs = <<2>>
        /\ search_cache = <<FALSE, TRUE, FALSE>>
        /\ \A i \in 1..3 : match_string(logs[i].message, Filter) <=> (i = 2)

\* A refresh of the case-sensitive scenario.
C14_Witness ==
    /\ fresh
    /\ ErrorScenario(TermError, TRUE, FALSE)
    /\ Len(search_cache) = 3
    /\ filtered_logs # <<>>

\* The lower-case letter of an upper-case one, by its place in the alphabet.
FoldChar(c) ==
    IF Rank(c) >= Rank("A") /\ Rank(c) <= Rank("Z")
    THEN ByteOrder[Rank(c) - Rank("A") + Rank("a")]
    ELSE c

Fold(s) == [i \in 1..Len(s) |-> FoldChar(s[i])]

\* t occurs in s at some offset.
HasSubstring(s, t) ==
    \E off \in 0..Len(s) :
        /\ off + Len(t) <= Len(s)
        /\ \A k \in 1..Len(t) : s[off + k] = t[k]

\* The texts a search runs over: the messages and the formatted lines.
SearchTexts ==
    {logs[i].message : i \in 1..Len(logs)}
    \cup {TextOf(logs[i], Style, TimePadding(logs, Style)) : i \in 1..Len(logs)}

\* C15: without regex, match_string is true exactly when the text holds
\* the term as a substring, both lower-cased unless the search is case
\* sensitive; term "error", case insensitive, matches and lists all of
\* "Error A", "error b", "ERROR c".
C15_PlainMatch ==
    /\ \A text \in SearchTexts, term \in ScenarioTerms, cs \in BOOLEAN :
           match_string(text, [term |-> term, regex |-> regex,
                               case_sensitive |-> cs, use_regex |-> FALSE])
               <=> IF cs THEN HasSubstring(text, term)
                   ELSE HasSubstring(Fold(text), Fold(term))
    /\ (fresh /\ ErrorScenario(TermError, FALSE, FALSE)) =>
           /\ \A i \in 1..3 : match_string(logs[i].message, Filter)
           /\ loglevels[3] => filtered_logs = <<1, 2, 3>>

\* A refresh of the case-insensitive scenario that lists the three records.
C15_Witness ==
    /\ fresh
    /\ ErrorScenario(TermError, FALSE, FALSE)
    /\ search_cache = <<TRUE, TRUE, TRUE>>
    /\ filtered_logs = <<1, 2, 3>>

\* C16: regex on, term "^error", case insensitive: the three records match
\* and are listed after a refresh.
C16_AnchoredMatchesAll ==
    (fresh /\ ErrorScenario(TermAnchored, FALSE, TRUE)) =>
        filtered_logs = <<1, 2, 3>>

\* C17: with regex on, a term that fails to compile leaves no compiled
\* pattern, every search cache entry false and no record listed, without a
\* panic; a term that compiles is compiled, and every entry is its match.
C17_InvalidPattern ==
    (fresh /\ search_use_regex) =>
        IF search_term = TermInvalid
        THEN /\ regex = None
             /\ \A text \in SearchTexts : ~match_string(text, Filter)
             /\ Len(search_cache) = Len(logs)
             /\ \A i \in 1..Len(search_cache) : ~search_cache[i]
             /\ filtered_logs = <<>>
             /\ fault = "none"
             /\ rendered = "list"
        ELSE /\ regex = Some([pattern |-> search_term,
                              case_insensitive |-> ~search_case_sensitive])
             /\ \A i \in 1..Len(logs) :
                    search_cache[i] =
                        IsMatch(regex.value,
                                TextOf(logs[i], Style, TimePadding(logs, Style)))

\* A refresh with regex on and the term "(" over three records.
C17_Witness ==
    /\ fresh
    /\ search_use_regex
    /\ search_term = TermInvalid
    /\ Len(logs) = 3
    /\ loglevels[3]
    /\ rendered = "list"

\* The positions a refresh listed.
Listed == {filtered_logs[j] : j \in 1..Len(filtered_logs)}

\* A sink call gives a category it sees for the first time the value of
\* show_all_categories and leaves every other entry as it is.
FirstSeenDefault ==
    (emits' # emits \/ \E t \in Threads : sink_pc[t] = "blocked" /\ sink_pc'[t] = "idle") =>
        /\ \A c \in DOMAIN categories :
               c \in DOMAIN categories' /\ categories'[c] = categories[c]
        /\ \A c \in DOMAIN categories' \ DOMAIN categories :
               categories'[c] = show_all_categories

\* enable_category sets the entry it names and no other.
ExplicitEnable ==
    (input'.kind = "enable_category" /\ pc' = "idle" /\ pc = "idle"
        /\ fresh' = FALSE /\ emits' = emits) =>
        /\ input'.arg[1] \in DOMAIN categories'
        /\ categories'[input'.arg[1]] = input'.arg[2]
        /\ \A c \in DOMAIN categories \ {input'.arg[1]} :
               categories'[c] = categories[c]

C19_DisabledNeverStored ==
    \A i \in 1..Len(logs) : logs[i].level <= ConfiguredMaxLevel

\* The time column of a record's line under the current style.
TimeColumn(rec) ==
    PadLeft(format_time(rec.time, time_format, time_precision),
            TimePadding(logs, Style))

StyleKinds == {"time_format", "time_precision"}

\* C20 as stated: after a refresh in which the time format or the time
\* precision was changed, every layout cache entry is its record's line
\* under the new style; in particular it starts with the record's time in
\* the new style.
C20_InvalidatedOnStyleChange ==
    (fresh /\ cache_layouts /\ input.kind \in StyleKinds) =>
        \A i \in 1..Len(layout_cache) :
            StartsWith(layout_cache[i], TimeColumn(logs[i]))

\* C20 as amended: a refresh in which the time format or the time precision
\* was changed leaves every layout cache entry it found as it was, formatted
\* under the style of the refresh that made it; only the entries it adds,
\* for records not yet cached, are formatted under the new style.
C20_KeptOnStyleChange ==
    [][(pc = "frame" /\ fresh' /\ cache_layouts /\ input'.kind \in StyleKinds) =>
          /\ Len(layout_cache') = Len(logs')
          /\ \A i \in 1..Len(layout_cache) : layout_cache'[i] = layout_cache[i]
          /\ \A i \in (Len(layout_cache) + 1)..Len(logs') :
                 layout_cache'[i] =
                     TextOf(logs'[i], Style', TimePadding(logs', Style'))]_vars

\* A refresh that changed the time format kept an entry with the time in
\* the old format and added one in the new format.
C20_Witness ==
    /\ fresh
    /\ cache_layouts
    /\ input.kind = "time_format"
    /\ Len(layout_cache) = 2
    /\ ~StartsWith(layout_cache[1], TimeColumn(logs[1]))
    /\ layout_cache[2] = TextOf(logs[2], Style, TimePadding(logs, Style))

\* C21 as stated: after every refresh whose search row was edited or
\* toggled, the stored pattern is the current term compiled with case
\* insensitivity the negation of the case flag, and None when the term does
\* not compile.
C21_CompiledAfterEveryFrame ==
    (fresh /\ input.kind \in {"search", "case", "regex"}) =>
        regex = RegexBuild(search_term, ~search_case_sensitive)

\* C24: after a refresh with the empty term the listed positions are the
\* ascending positions whose level is enabled and whose category is not
\* explicitly disabled, and every search cache entry is true, whatever the
\* case and regex flags, the stored pattern and the entries held before.
C24_EmptyTermMatchesAll ==
    (fresh /\ search_term = <<>>) =>
        /\ filtered_logs =
               Ascending({i \in 1..Len(logs) :
                   /\ loglevels[logs[i].level]
                   /\ ~(logs[i].target \in DOMAIN categories
                          /\ ~categories[logs[i].target])})
        /\ Len(search_cache) = Len(logs)
        /\ \A i \in 1..Len(search_cache) : search_cache[i]
        /\ \A text \in SearchTexts : match_string(text, Filter)

\* The term edited back to empty, case sensitive, after two other edits of
\* the search row, no pattern stored, and records listed.
C24_Witness ==
    /\ fresh
    /\ search_term = <<>>
    /\ input.kind = "search"
    /\ inputs_used = 3
    /\ search_case_sensitive
    /\ regex = None
    /\ logs = ErrorData
    /\ filtered_logs = <<1, 2, 3>>

\* C27: a refresh that ends with regex on leaves the pattern of the current
\* term and the current case flag stored, None when the term does not
\* compile, and match_string answers from that pattern, whatever the edits
\* and toggles before, those made with regex off included.
C27_NoStalePattern ==
    [][(pc = "frame" /\ fresh' /\ search_use_regex') =>
          /\ regex' = RegexBuild(search_term', ~search_case_sensitive')
          /\ \A text \in SearchTexts' :
                 match_string(text, Filter') =
                     (RegexBuild(search_term', ~search_case_sensitive').some
                      /\ IsMatch(RegexBuild(search_term',
                                            ~search_case_sensitive').value,
                                 text))]_vars

\* Regex turned on in the refresh after the one that edited the term with
\* regex off.
C27_Witness ==
    /\ fresh
    /\ search_use_regex
    /\ input.kind = "regex"
    /\ inputs_used = 2
    /\ search_term = TermError
    /\ ~search_case_sensitive
    /\ logs = ErrorData
    /\ filtered_logs = <<1, 2, 3>>

\* C23: the refresh in which Clear fires completes without a fault, leaves
\* the records, the search cache and the layout cache empty and lists
\* nothing, and leaves the categories and the filter settings as they were;
\* a refresh that starts with empty caches caches the records from the
\* first one on.
C23_ClearEmptiesTogether ==
    [][/\ (pc = "frame" /\ pc' # "frame" /\ input'.kind = "clear") =>
             /\ fresh' /\ fault' = "none" /\ rendered' = "list"
             /\ logs' = <<>>
             /\ search_cache' = <<>>
             /\ layout_cache' = <<>>
             /\ search_src' = <<>>
             /\ layout_src' = <<>>
             /\ filtered_logs' = <<>>
             /\ categories' = categories
             /\ max_category_length' = max_category_length
             /\ Filter' = Filter
             /\ loglevels' = loglevels
             /\ Style' = Style
             /\ max_log_length' = max_log_length
       /\ (pc = "frame" /\ fresh' /\ search_cache = <<>> /\ layout_cache = <<>>) =>
             /\ Len(search_cache') = Len(logs')
             /\ \A j \in 1..Len(logs') : search_src'[j] = logs'[j].time
             /\ cache_layouts =>
                    /\ Len(layout_cache') = Len(logs')
                    /\ \A j \in 1..Len(logs') : layout_src'[j] = logs'[j].time]_vars

\* Clear pressed with two records stored and the term "a" typed before.
C23_Witness ==
    /\ fresh
    /\ input.kind = "clear"
    /\ inputs_used = 2
    /\ appended_total = 2
    /\ search_term = <<"a">>
    /\ DOMAIN categories # {}
    /\ logs = <<>>
    /\ search_cache = <<>>
    /\ layout_cache = <<>>

\* The record of event ev appended as the next one of the run.
AppendedRecord(ev) ==
    [level |-> ev.level, target |-> ev.target, message |-> ev.message,
     time |-> TimeOf(appended_total + 1)]

UncachedVisible == FilteredLogs(logs, loglevels, categories, uncached_search)

\* C22 as stated: after every refresh the listed positions with
\* enable_cache_layouts(true) are the ones the same appends, evictions,
\* clears, search changes and style changes give with
\* enable_cache_layouts(false).
C22_SameVisibleSet ==
    (fresh /\ cache_layouts) => filtered_logs = UncachedVisible

\* C26 as stated: under fair scheduling every sink call returns: a thread
\* parked in lock() gets the mutex, and a call made on the UI thread inside
\* the frame gets out of lock() as well.
C26_EveryEmitReturns ==
    /\ \A t \in Threads : (sink_pc[t] = "blocked") ~> (sink_pc[t] = "idle")
    /\ (pc = "relock") ~> (pc # "relock")

\* C28: a show() after the first one leaves the cap, the levels, the layout
\* cache switch, the style and the search settings of the installed viewer
\* as they are, whatever LoggerUi it was called on: the frame trims to the
\* installed cap, and the caches lose the evicted records' entries and
\* nothing else.
C28_FirstShowInstalls ==
    [][(pc = "idle" /\ rendered # "never" /\ pc' = "frame") =>
          LET d == SaturatingSub(Len(logs), max_log_length)
          IN  /\ max_log_length' = max_log_length
              /\ loglevels' = loglevels
              /\ cache_layouts' = cache_layouts
              /\ Style' = Style
              /\ Filter' = Filter
              /\ cap_used' = max_log_length
              /\ Len(logs') = Min(Len(logs), max_log_length)
              /\ search_cache' =
                     SubSeq(search_cache, Min(d, Len(search_cache)) + 1,
                            Len(search_cache))
              /\ layout_cache' =
                     SubSeq(layout_cache, Min(d, Len(layout_cache)) + 1,
                            Len(layout_cache))]_vars

\* A later show() under way on the viewer the first one installed with the
\* cap 1, all levels on and the layout cache: the term typed in the first
\* frame and the caches are still there.
C28_Witness ==
    /\ pc = "frame"
    /\ rendered = "list"
    /\ inputs_used = 1
    /\ search_term = <<"a">>
    /\ max_log_length = 1
    /\ loglevels[4]
    /\ cache_layouts
    /\ Len(search_cache) = 1
    /\ Len(layout_cache) = 1

====
